---- MODULE Spec2Model ----
(***************************************************************************)
(* A model of MSGA-Discord/bot.py: the verification records kept in the    *)
(* shared JSON file, the polling loop that processes submitted records     *)
(* (process_verified_codes), the slash commands that create and remove     *)
(* records, and the Minecraft plugin that flips a record's verified flag.  *)
(*                                                                         *)
(* The bot is one asyncio process: a coroutine runs without interruption   *)
(* from one await to the next, so every action below is the code between   *)
(* two awaits.  The plugin is another process and acts at any time.        *)
(***************************************************************************)
EXTENDS Integers, FiniteSets, Sequences, TLC

----------------------------------------------------------------------------
(* Bounds of the model *)

NumCodes == 2          \* codes generate_code can draw
NumUsers == 2          \* Discord users that issue /verify
MaxLoops == 2          \* on_ready events, each starting a polling loop
MaxCreates == 2        \* records created by /verify
MaxFaults == 1         \* loads and saves that fail
MaxAdvances == 1       \* steps of the clock
MaxCalls == 2          \* calls of assign_guild_rank_role made by /forcerole

Codes == 1..NumCodes
Users == 1..NumUsers
Tasks == 1..MaxLoops
Names == {"Alice"}
Requests == 1..MaxCreates

(* Program constants *)
RETENTION == 86400     \* cleanup_command: older than 24 hours
EXPIRY_WINDOW == 1800  \* "Code expires in 30 minutes"

\* The clock moves past the expiry window or past the retention window
ClockSteps == {EXPIRY_WINDOW + 1, RETENTION + 1}

None == "None"

\* An optional value: <<>> is Python's None (or an unset key), <<x>> is x
Nothing == <<>>
Some(x) == <<x>>

----------------------------------------------------------------------------
(* Records and the mapping read from and written to the file *)

Ranks == {"Guild Master", "Guild Officer", "Guild Member", "Guild Recruit"}

GUILD_ROLE_IDS ==
  [r \in Ranks |-> CASE r = "Guild Master" -> 1
                     [] r = "Guild Officer" -> 2
                     [] r = "Guild Member" -> 3
                     [] r = "Guild Recruit" -> 4]

DEFAULT_GUILD_ROLE_ID == GUILD_ROLE_IDS["Guild Member"]

RoleIds == {GUILD_ROLE_IDS[r] : r \in Ranks}

EmptyMap == [c \in {} |-> 0]

\* The entry /verify writes (lines 469-476). The field request is not in the
\* file: it numbers the /verify calls, so that the properties can tell the
\* records apart that were stored under one code
NewEntry(name, user, ts, id) ==
  [request |-> id,
   minecraft_username |-> name,
   timestamp |-> ts,
   verified |-> FALSE,
   discord_user_id |-> Some(user),
   processed |-> FALSE,
   created_at |-> ts,
   error |-> None,
   guild_verified |-> None,
   verified_at |-> Nothing,
   guild_name |-> None,
   guild_rank |-> None,
   raw_rank |-> None,
   join_date |-> None]

\* data[code] = entry
Put(d, c, e) == [k \in (DOMAIN d) \cup {c} |-> IF k = c THEN e ELSE d[k]]

\* data.pop(code, None) for every code of cs
Pop(d, cs) == [k \in (DOMAIN d) \ cs |-> d[k]]

\* entry.get("verified", False) and not entry.get("processed", False)
Submitted(e) == e.verified /\ ~e.processed

Pending(e) == ~e.verified /\ ~e.processed

InFlight(e) == ~e.processed

----------------------------------------------------------------------------
(* The external lookups: what the code returns for each kind of response *)

MojangResponses == {"200", "404", "500", "timeout", "exception"}

\* get_minecraft_uuid as it would be if a timeout were not caught as a failure
get_minecraft_uuid_TimeoutPasses(resp) ==
  IF resp \in {"200", "timeout"} THEN [success |-> TRUE, error |-> None]
  ELSE [success |-> FALSE, error |-> "Mojang API error"]

get_minecraft_uuid(resp) ==
  CASE resp = "200" -> [success |-> TRUE, error |-> None]
    [] resp = "404" -> [success |-> FALSE, error |-> "Minecraft account not found"]
    [] resp = "timeout" -> [success |-> FALSE, error |-> "Mojang API timeout"]
    [] resp = "exception" -> [success |-> FALSE, error |-> "ClientError"]
    [] OTHER -> [success |-> FALSE, error |-> "Mojang API error: 500"]

\* The rank names Hypixel reports; "Custom" is a rank the guild defined
RawRanks == {"Guild Master", "Officer", "Member", "Recruit", "Custom"}

HypixelFailures ==
  {"timeout", "exception", "http_error", "api_fail", "no_guild", "other_guild"}

\* A response of api.hypixel.net/guild. kind "listed": the target guild, the
\* player in its members list with rank `rank`; priority is the priority of
\* that rank in guild.ranks (0 when the rank is not there); joined is the
\* member's join time (0 when absent). kind "unlisted": the target guild, the
\* player not in members.
HypResp(kind, rank, priority, joined) ==
  [kind |-> kind, rank |-> rank, priority |-> priority, joined |-> joined]

HypixelResponses ==
  {HypResp(k, None, 0, 0) : k \in HypixelFailures \cup {"unlisted"}}
  \cup {HypResp("listed", r, p, j) : r \in RawRanks, p \in {0, 3}, j \in {0, 1}}

GuildFail(err) ==
  [success |-> FALSE, error |-> err, guild_name |-> None, guild_rank |-> None,
   join_date |-> None, raw_rank |-> None]

player_rank(resp) ==
  CASE resp.rank = "Guild Master" -> "Guild Master"
    [] resp.rank = "Officer" -> "Guild Officer"
    [] resp.rank = "Member" -> "Guild Member"
    [] resp.rank = "Recruit" -> "Guild Recruit"
    [] OTHER -> IF resp.priority >= 3 THEN "Guild Officer" ELSE "Guild Member"

check_guild_membership(resp) ==
  CASE resp.kind = "timeout" -> GuildFail("Hypixel API timeout")
    [] resp.kind = "exception" -> GuildFail("ClientError")
    [] resp.kind = "http_error" -> GuildFail("Hypixel API error: 500")
    [] resp.kind = "api_fail" -> GuildFail("Hypixel API request failed")
    [] resp.kind = "no_guild" -> GuildFail("Player is not in any guild")
    [] resp.kind = "other_guild" -> GuildFail("Player is in a different guild: Other")
    [] resp.kind = "listed" ->
         [success |-> TRUE, error |-> None, guild_name |-> "MSGA",
          guild_rank |-> player_rank(resp),
          join_date |-> IF resp.joined # 0 THEN "2024-01-01" ELSE "0",
          raw_rank |-> resp.rank]
    [] OTHER ->
         [success |-> TRUE, error |-> None, guild_name |-> "MSGA",
          guild_rank |-> "Guild Member", join_date |-> None, raw_rank |-> "Member"]

\* GUILD_ROLE_IDS.get(guild_rank, DEFAULT_GUILD_ROLE_ID)
get_discord_role_for_guild_rank(guild_rank) ==
  IF guild_rank \in DOMAIN GUILD_ROLE_IDS THEN GUILD_ROLE_IDS[guild_rank]
  ELSE DEFAULT_GUILD_ROLE_ID

\* status_command: what the user is shown for their record
status_command(e) ==
  IF ~e.verified THEN "Waiting for Minecraft Submission"
  ELSE IF ~e.processed THEN "Processing Verification"
  ELSE IF e.guild_verified = "True" THEN "Verification Complete!"
  ELSE "Guild Verification Failed"

----------------------------------------------------------------------------
(* State *)

VARIABLES
  store,      \* the JSON file: code -> entry
  now,        \* the clock, in seconds
  pc,         \* per polling loop: where it is suspended
  data,       \* per polling loop: the mapping its tick loaded (a local copy)
  todo,       \* per polling loop: eligible codes of data its for loop has not reached
  cur,        \* per polling loop: the code its for loop is at
  existing,   \* per polling loop: existing_guild_roles of assign_guild_rank_role
  roles,      \* per Discord member: the guild rank roles held
  runs,       \* per request: calls of get_minecraft_uuid for its record
  grants,     \* per request: calls of assign_guild_rank_role for its record
  created,    \* records /verify has created
  faults,     \* loads and saves that failed
  advances,   \* steps the clock has made
  limit,      \* what this run is bounded by: one of Profiles
  overdue,    \* requests whose record was Pending when its age passed EXPIRY_WINDOW
  errored,    \* requests for whose record a step of the pipeline ended in an error
  shown,      \* requests whose code /verify has sent to the user
  missed,     \* requests Submitted in the file when a tick could not load it
  skipped,    \* requests whose record a tick passed over for want of a discord_user_id
  events,     \* per request: what the pipeline has done for its record
  force,      \* the call of assign_guild_rank_role that /forcerole has in progress
  calls       \* the calls of assign_guild_rank_role by /forcerole that have returned

vars == <<store, now, pc, data, todo, cur, existing, roles, runs, grants,
          created, faults, advances, limit, overdue, errored, shown, missed,
          skipped, events, force, calls>>

\* No call of assign_guild_rank_role by /forcerole is in progress
NoCall ==
  [pc |-> "idle", member |-> 1, rank |-> "Guild Member", before |-> {},
   existing |-> {}, accepted |-> TRUE]

\* The responses the lookups give when not all are explored: a success and
\* a failure of each, and the timeout of the identity lookup
CoreMojang == {"200", "404", "timeout"}
CoreHypixel == {HypResp("no_guild", None, 0, 0), HypResp("listed", "Officer", 0, 1)}
CoreDiscord == {"ok", "no_member"}

\* A run is one of: on_ready fires MaxLoops times; the file fails and time
\* passes under one polling loop; every response of the lookups is explored
\* under one polling loop; the file receives records the bot did not write
\* under one polling loop
Profiles ==
  { [loops |-> MaxLoops, faults |-> 0, advances |-> 0, creates |-> MaxCreates,
     all |-> FALSE, foreign |-> FALSE],
    [loops |-> 1, faults |-> MaxFaults, advances |-> MaxAdvances,
     creates |-> MaxCreates, all |-> FALSE, foreign |-> FALSE],
    [loops |-> 1, faults |-> 0, advances |-> 0, creates |-> MaxCreates,
     all |-> TRUE, foreign |-> FALSE],
    [loops |-> 1, faults |-> 0, advances |-> 0, creates |-> MaxCreates,
     all |-> FALSE, foreign |-> TRUE] }

Init ==
  /\ store = EmptyMap
  /\ now = 0
  /\ pc = [t \in Tasks |-> "off"]
  /\ data = [t \in Tasks |-> EmptyMap]
  /\ todo = [t \in Tasks |-> {}]
  /\ cur = [t \in Tasks |-> Nothing]
  /\ existing = [t \in Tasks |-> {}]
  /\ roles = [u \in Users |-> {}]
  /\ runs = [r \in Requests |-> 0]
  /\ grants = [r \in Requests |-> 0]
  /\ created = 0
  /\ faults = 0
  /\ advances = 0
  /\ limit \in Profiles
  /\ overdue = {}
  /\ errored = {}
  /\ shown = {}
  /\ missed = {}
  /\ skipped = {}
  /\ events = [r \in Requests |-> {}]
  /\ force = NoCall
  /\ calls = <<>>

----------------------------------------------------------------------------
(* The file *)

\* load_verification_codes as it would be if a failed read gave the records
\* of the file all the same
load_verification_codes_Lenient(ok) == store

\* load_verification_codes: the mapping, or {} when the file cannot be read
load_verification_codes(ok) == IF ok THEN store ELSE EmptyMap

\* An action's reads and writes of the file, n of which fail
Fails(ok) == IF ok THEN 0 ELSE 1

FileAccess(n) ==
  /\ faults + n <= limit.faults
  /\ faults' = faults + n

\* save_verification_codes(data): writes the whole mapping; a failure leaves
\* the file as it was and is reported only by the return value, which no
\* caller reads
save_verification_codes(d, ok) == store' = IF ok THEN d ELSE store

----------------------------------------------------------------------------
(* process_verified_codes, run by check_verified_periodically *)

\* Eligible as it would be if line 226 did not test processed
Eligible_AnyVerified(e) == e.verified /\ e.discord_user_id # Nothing

\* line 226 and line 230: the records the for loop acts on
Eligible(e) == Submitted(e) /\ e.discord_user_id # Nothing

EligibleCodes(d) == {c \in DOMAIN d : Eligible(d[c])}

\* lines 230-232: the submitted records the for loop passes over with a
\* print and a continue
SkippedCodes(d) ==
  {c \in DOMAIN d : Submitted(d[c]) /\ d[c].discord_user_id = Nothing}

\* The for loop goes on to the next eligible record of d and calls
\* get_minecraft_uuid for it, or ends the tick when none is left
ForLoop(t, d, rest) ==
  IF rest = {}
  THEN /\ pc' = [pc EXCEPT ![t] = "sleep"]
       /\ data' = [data EXCEPT ![t] = EmptyMap]
       /\ todo' = [todo EXCEPT ![t] = {}]
       /\ cur' = [cur EXCEPT ![t] = Nothing]
       /\ UNCHANGED runs
  ELSE \E c \in rest :
       /\ pc' = [pc EXCEPT ![t] = "uuid"]
       /\ data' = [data EXCEPT ![t] = d]
       /\ todo' = [todo EXCEPT ![t] = rest \ {c}]
       /\ cur' = [cur EXCEPT ![t] = Some(c)]
       /\ runs' = [runs EXCEPT ![d[c].request] = @ + 1]

Member(t) == data[t][cur[t][1]].discord_user_id[1]

\* A step of the pipeline for the record the for loop is at has ended; in an
\* error when failed
StepEnds(t, failed) ==
  errored' = IF failed THEN errored \cup {data[t][cur[t][1]].request} ELSE errored

\* What the pipeline does for the record the for loop is at:
\*   "timeout"  get_minecraft_uuid ended in asyncio.TimeoutError
\*   "guild"    check_guild_membership was called
\*   "denied"   check_guild_membership returned success: False
\*   "sink"     member.remove_roles or member.add_roles was called
Did(t, what) ==
  events' = [events EXCEPT ![data[t][cur[t][1]].request] = @ \cup what]

\* on_ready: starts one more polling loop
OnReady ==
  /\ \E t \in Tasks :
       /\ pc[t] = "off"
       /\ t <= limit.loops
       /\ \A s \in Tasks : s < t => pc[s] # "off"
       /\ pc' = [pc EXCEPT ![t] = "sleep"]
  /\ UNCHANGED <<store, now, data, todo, cur, existing, roles, runs, grants,
                 created, faults, advances, limit, overdue, errored, shown,
                 missed, skipped, events, force, calls>>

\* A tick starts: load, then the for loop up to the first await
TickStart(t) ==
  /\ pc[t] = "sleep"
  /\ \E ok \in BOOLEAN :
       /\ FileAccess(Fails(ok))
       /\ ForLoop(t, load_verification_codes(ok),
                  EligibleCodes(load_verification_codes(ok)))
       /\ missed' = IF ok THEN missed
                    ELSE missed \cup {store[c].request : c \in EligibleCodes(store)}
       /\ skipped' = skipped \cup
            {store[c].request : c \in SkippedCodes(load_verification_codes(ok))}
  /\ UNCHANGED <<store, now, existing, roles, grants, created, advances, limit,
                 overdue, errored, shown, events, force, calls>>

\* get_minecraft_uuid returns (lines 237-247)
UuidReturn(t, resp) ==
  /\ pc[t] = "uuid"
  /\ LET r == get_minecraft_uuid(resp)
           c == cur[t][1]
           d == [data[t] EXCEPT ![c].processed = TRUE, ![c].error = r.error]
       IN IF r.success
          THEN /\ pc' = [pc EXCEPT ![t] = "guild"]
               /\ StepEnds(t, FALSE)
               /\ Did(t, {"guild"})
               /\ UNCHANGED <<store, data, todo, cur, runs, faults>>
          ELSE /\ \E ok \in BOOLEAN :
                    save_verification_codes(d, ok) /\ FileAccess(Fails(ok))
               /\ StepEnds(t, TRUE)
               /\ Did(t, IF resp = "timeout" THEN {"timeout"} ELSE {})
               /\ ForLoop(t, d, todo[t])
  /\ UNCHANGED <<now, existing, roles, grants, created, advances, limit,
                 overdue, shown, missed, skipped, force, calls>>

\* lines 253, 288-293: the fields the tick sets when the player is in the guild
Passed(e, g) ==
  [e EXCEPT !.processed = TRUE,
            !.guild_verified = "True",
            !.verified_at = Some(now),
            !.guild_name = g.guild_name,
            !.guild_rank = g.guild_rank,
            !.raw_rank = g.raw_rank,
            !.join_date = g.join_date]

\* bot.get_guild and discord_guild.get_member (lines 296-308, 263-266)
DiscordLookups == {"ok", "no_guild", "no_member"}

\* check_guild_membership returns (lines 250-322, up to the next await)
GuildReturn(t, resp, disc, roleFound) ==
  /\ pc[t] = "guild"
  /\ LET g == check_guild_membership(resp)
           c == cur[t][1]
           u == Member(t)
           failed == [data[t] EXCEPT ![c].processed = TRUE,
                                     ![c].guild_verified = "False",
                                     ![c].error = g.error]
           passed == [data[t] EXCEPT ![c] = Passed(data[t][c], g)]
           Stop(d) == /\ \E ok \in BOOLEAN :
                           save_verification_codes(d, ok) /\ FileAccess(Fails(ok))
                      /\ ForLoop(t, d, todo[t])
                      /\ UNCHANGED existing
           Await(label, d) == /\ pc' = [pc EXCEPT ![t] = label]
                              /\ data' = [data EXCEPT ![t] = d]
                              /\ UNCHANGED <<store, todo, cur, runs, faults>>
       IN IF ~g.success
          THEN /\ roleFound
               /\ UNCHANGED grants
               /\ StepEnds(t, TRUE)
               /\ Did(t, {"denied"})
               /\ IF disc = "ok"
                  THEN Await("dm", failed) /\ UNCHANGED existing
                  ELSE Stop(failed)
          ELSE CASE disc = "no_guild" ->
                    /\ roleFound
                    /\ UNCHANGED grants
                    /\ StepEnds(t, TRUE)
                    /\ Did(t, {})
                    /\ Stop([passed EXCEPT ![c].error = "Discord guild not found"])
                 [] disc = "no_member" ->
                    /\ roleFound
                    /\ UNCHANGED grants
                    /\ StepEnds(t, TRUE)
                    /\ Did(t, {})
                    /\ Stop([passed EXCEPT
                               ![c].error = "Discord member not found in server"])
                 [] OTHER ->
                    /\ grants' = [grants EXCEPT ![data[t][c].request] = @ + 1]
                    /\ StepEnds(t, ~roleFound)
                    /\ Did(t, IF roleFound THEN {"sink"} ELSE {})
                    /\ IF ~roleFound
                       THEN Stop([passed EXCEPT
                                    ![c].error = "Failed to assign guild rank role"])
                       ELSE /\ existing' = [existing EXCEPT ![t] = roles[u]]
                            /\ Await(IF roles[u] # {} THEN "remove" ELSE "add", passed)
  /\ UNCHANGED <<now, roles, created, advances, limit, overdue, shown, missed,
                 skipped, force, calls>>

\* member.remove_roles returns (lines 197-204): a failure is only printed
RemoveReturn(t) ==
  /\ pc[t] = "remove"
  /\ \E ok \in BOOLEAN :
       roles' = [roles EXCEPT ![Member(t)] = IF ok THEN @ \ existing[t] ELSE @]
  /\ pc' = [pc EXCEPT ![t] = "add"]
  /\ existing' = [existing EXCEPT ![t] = {}]
  /\ UNCHANGED <<store, now, data, todo, cur, runs, grants, created, faults,
                 advances, limit, overdue, errored, shown, missed, skipped,
                 events, force, calls>>

\* member.add_roles returns (lines 207-216, 317-324)
AddReturn(t) ==
  /\ pc[t] = "add"
  /\ \E ok \in BOOLEAN :
       LET c == cur[t][1]
           role == get_discord_role_for_guild_rank(data[t][c].guild_rank)
           d == [data[t] EXCEPT ![c].error = "Failed to assign guild rank role"]
       IN IF ok
          THEN /\ roles' = [roles EXCEPT ![Member(t)] = @ \cup {role}]
               /\ pc' = [pc EXCEPT ![t] = "dm"]
               /\ StepEnds(t, FALSE)
               /\ UNCHANGED <<store, data, todo, cur, runs, faults>>
          ELSE /\ \E sok \in BOOLEAN :
                    save_verification_codes(d, sok) /\ FileAccess(Fails(sok))
               /\ StepEnds(t, TRUE)
               /\ ForLoop(t, d, todo[t])
               /\ UNCHANGED roles
  /\ UNCHANGED <<now, existing, grants, created, advances, limit, overdue,
                 shown, missed, skipped, events, force, calls>>

\* member.send returns or raises (lines 282-284, 355-360): the save of line 359
DmReturn(t) ==
  /\ pc[t] = "dm"
  /\ \E ok \in BOOLEAN :
       /\ save_verification_codes(data[t], ok)
       /\ FileAccess(Fails(ok))
       /\ StepEnds(t, ~ok)
  /\ ForLoop(t, data[t], todo[t])
  /\ UNCHANGED <<now, existing, roles, grants, created, advances, limit,
                 overdue, shown, missed, skipped, events, force, calls>>

----------------------------------------------------------------------------
(* Slash commands: each runs from its load to its save without an await *)

\* line 42: six random digits, with no look at the codes in use
generate_code == Codes

\* HasActive as it would be if only submitted records counted as active
HasActive_SubmittedOnly(d, u) ==
  \E c \in DOMAIN d : d[c].discord_user_id = Some(u) /\ Submitted(d[c])

\* lines 441-442: the user already has a record that is not processed
HasActive(d, u) ==
  \E c \in DOMAIN d : d[c].discord_user_id = Some(u) /\ ~d[c].processed

\* /verify by user u for the name n: the record is stored under code c
VerifyCreate(u, n, c, lok, sok) ==
  /\ created < limit.creates
  /\ FileAccess(Fails(lok) + Fails(sok))
  /\ ~HasActive(load_verification_codes(lok), u)
  /\ save_verification_codes(
       Put(load_verification_codes(lok), c, NewEntry(n, u, now, created + 1)), sok)
  /\ created' = created + 1
  /\ shown' = shown \cup {created + 1}
  /\ UNCHANGED <<now, pc, data, todo, cur, existing, roles, runs, grants,
                 advances, limit, overdue, errored, missed, skipped,
                 events, force, calls>>

\* /verify by a user who has an active record: the record is shown, nothing
\* is written
VerifyRefused(u) ==
  /\ HasActive(store, u)
  /\ UNCHANGED vars

verify_command ==
  \/ \E u \in Users, n \in Names, c \in generate_code, lok \in BOOLEAN, sok \in BOOLEAN :
       VerifyCreate(u, n, c, lok, sok)
  \/ \E u \in Users : VerifyRefused(u)

\* line 853: entry.get("timestamp", 0)
Timestamp(e) == IF "timestamp" \in DOMAIN e THEN e.timestamp ELSE 0

\* lines 852-855: the codes cleanup removes
codes_to_remove(d, current_time) ==
  {c \in DOMAIN d : current_time - Timestamp(d[c]) > RETENTION}

\* lines 857-861: codes were found, the mapping without them is saved
cleanup_save(lok, sok) ==
  /\ LET d == load_verification_codes(lok)
         gone == codes_to_remove(d, now)
     IN /\ gone # {}
        /\ save_verification_codes(Pop(d, gone), sok)
        /\ FileAccess(Fails(lok) + Fails(sok))
  /\ UNCHANGED <<now, pc, data, todo, cur, existing, roles, runs, grants,
                 created, advances, limit, overdue, errored, shown, missed,
                 skipped, events, force, calls>>

\* line 860: no code was found, nothing is saved
cleanup_skip(lok) ==
  /\ codes_to_remove(load_verification_codes(lok), now) = {}
  /\ FileAccess(Fails(lok))
  /\ UNCHANGED <<store, now, pc, data, todo, cur, existing, roles, runs, grants,
                 created, advances, limit, overdue, errored, shown, missed,
                 skipped, events, force, calls>>

\* /cleanup
cleanup_command ==
  \E lok \in BOOLEAN :
    \/ cleanup_skip(lok)
    \/ \E sok \in BOOLEAN : cleanup_save(lok, sok)

----------------------------------------------------------------------------
(* The environment *)

\* The Minecraft plugin sets verified: true on a record a player submitted
ExternalFlip ==
  /\ \E c \in DOMAIN store :
       /\ Pending(store[c])
       /\ store' = [store EXCEPT ![c].verified = TRUE]
  /\ UNCHANGED <<now, pc, data, todo, cur, existing, roles, runs, grants,
                 created, faults, advances, limit, overdue, errored, shown,
                 missed, skipped, events, force, calls>>

\* The file is shared with the plugin: a submitted record that carries no
\* discord_user_id appears in it, the record lines 230-232 provide for
ExternalOrphan ==
  /\ limit.foreign
  /\ created < limit.creates
  /\ \E c \in Codes \ DOMAIN store, n \in Names :
       store' = Put(store, c, [NewEntry(n, 1, now, created + 1) EXCEPT
                                 !.discord_user_id = Nothing, !.verified = TRUE])
  /\ created' = created + 1
  /\ UNCHANGED <<now, pc, data, todo, cur, existing, roles, runs, grants,
                 faults, advances, limit, overdue, errored, shown, missed,
                 skipped, events, force, calls>>

\* Time passes
Advance ==
  /\ advances < limit.advances
  /\ \E d \in ClockSteps : now' = now + d
  /\ advances' = advances + 1
  /\ overdue' = overdue \cup
       {store[c].request : c \in {k \in DOMAIN store :
          Pending(store[k]) /\ now' - store[k].timestamp > EXPIRY_WINDOW}}
  /\ UNCHANGED <<store, pc, data, todo, cur, existing, roles, runs, grants,
                 created, faults, limit, errored, shown, missed, skipped,
                 events, force, calls>>

----------------------------------------------------------------------------
(* The bot and its environment *)

\* The steps of polling loop t: the sleep of 5 s ends and a tick starts, or
\* the call the tick awaits returns
check_verified_periodically(t) ==
  \/ TickStart(t)
  \/ \E resp \in IF limit.all THEN MojangResponses ELSE CoreMojang :
       UuidReturn(t, resp)
  \/ \E resp \in IF limit.all THEN HypixelResponses ELSE CoreHypixel,
        disc \in IF limit.all THEN DiscordLookups ELSE CoreDiscord,
        roleFound \in BOOLEAN :
       GuildReturn(t, resp, disc, roleFound)
  \/ RemoveReturn(t)
  \/ AddReturn(t)
  \/ DmReturn(t)

\* The steps of the polling loops
process_verified_codes == \E t \in Tasks : check_verified_periodically(t)

Next ==
  \/ OnReady
  \/ process_verified_codes
  \/ verify_command
  \/ cleanup_command
  \/ ExternalFlip
  \/ ExternalOrphan
  \/ Advance

Spec == Init /\ [][Next]_vars

\* The bot becomes ready, every polling loop keeps running (its sleep ends)
\* and every call a tick awaits returns
LiveSpec ==
  /\ Spec
  /\ WF_vars(OnReady /\ pc[1] = "off")
  /\ \A t \in Tasks : WF_vars(check_verified_periodically(t))

\* One polling loop, every response of the lookups, the file and the clock
\* left alone: the bot becomes ready, the loop keeps running and every call
\* a tick awaits returns
TickInit == Init /\ limit.all

TickNext ==
  \/ OnReady
  \/ process_verified_codes
  \/ verify_command
  \/ ExternalFlip

TickSpec ==
  /\ TickInit
  /\ [][TickNext]_vars
  /\ WF_vars(OnReady /\ pc[1] = "off")
  /\ \A t \in Tasks : WF_vars(check_verified_periodically(t))

----------------------------------------------------------------------------
(* assign_guild_rank_role by itself, as /forcerole calls it for a member who *)
(* holds any of the guild rank roles                                        *)

\* The roles the member holds when add_roles would have skipped a role the
\* member held before the call
AfterAdd_SkipHeld(f, held) ==
  IF get_discord_role_for_guild_rank(f.rank) \in f.before THEN held
  ELSE held \cup {get_discord_role_for_guild_rank(f.rank)}

\* lines 207-210: the roles the member holds when add_roles(role) succeeded
AfterAdd(f, held) == held \cup {get_discord_role_for_guild_rank(f.rank)}

\* A call that has returned: the member's guild rank roles before and after,
\* whether the role was returned, and whether the role was found and Discord
\* accepted every request
Returned(f, after, ok, accepted) ==
  [member |-> f.member, rank |-> f.rank, before |-> f.before, after |-> after,
   returned |-> ok, accepted |-> accepted]

\* /forcerole member rank: assign_guild_rank_role up to its first await
forcerole_command(m, rank, roleFound) ==
  /\ force.pc = "idle"
  /\ Len(calls) < MaxCalls
  /\ roleFound \/ get_discord_role_for_guild_rank(rank) \notin roles[m]
  /\ LET f == [NoCall EXCEPT !.member = m, !.rank = rank, !.before = roles[m],
                             !.existing = roles[m]]
     IN IF ~roleFound
        THEN /\ calls' = Append(calls, Returned(f, roles[m], FALSE, FALSE))
             /\ UNCHANGED force
        ELSE /\ force' = [f EXCEPT !.pc = IF roles[m] # {} THEN "remove" ELSE "add"]
             /\ UNCHANGED calls
  /\ UNCHANGED <<store, now, pc, data, todo, cur, existing, roles, runs, grants,
                 created, faults, advances, limit, overdue, errored, shown,
                 missed, skipped, events>>

\* member.remove_roles returns (lines 197-204)
ForceRemoveReturn(ok) ==
  /\ force.pc = "remove"
  /\ roles' = [roles EXCEPT ![force.member] = IF ok THEN @ \ force.existing ELSE @]
  /\ force' = [force EXCEPT !.pc = "add", !.accepted = ok]
  /\ UNCHANGED <<store, now, pc, data, todo, cur, existing, runs, grants,
                 created, faults, advances, limit, overdue, errored, shown,
                 missed, skipped, events, calls>>

\* member.add_roles returns (lines 207-216)
ForceAddReturn(ok) ==
  /\ force.pc = "add"
  /\ roles' = [roles EXCEPT ![force.member] = IF ok THEN AfterAdd(force, @) ELSE @]
  /\ calls' = Append(calls, Returned(force, roles'[force.member], ok,
                                     force.accepted /\ ok))
  /\ force' = NoCall
  /\ UNCHANGED <<store, now, pc, data, todo, cur, existing, runs, grants,
                 created, faults, advances, limit, overdue, errored, shown,
                 missed, skipped, events>>

assign_guild_rank_role ==
  \/ \E m \in Users, rank \in Ranks, roleFound \in BOOLEAN :
       forcerole_command(m, rank, roleFound)
  \/ \E ok \in BOOLEAN : ForceRemoveReturn(ok)
  \/ \E ok \in BOOLEAN : ForceAddReturn(ok)

\* The members hold any of the guild rank roles; no record is in the file and
\* no polling loop runs
RoleInit ==
  /\ store = EmptyMap
  /\ now = 0
  /\ pc = [t \in Tasks |-> "off"]
  /\ data = [t \in Tasks |-> EmptyMap]
  /\ todo = [t \in Tasks |-> {}]
  /\ cur = [t \in Tasks |-> Nothing]
  /\ existing = [t \in Tasks |-> {}]
  /\ roles \in [Users -> SUBSET RoleIds]
  /\ runs = [r \in Requests |-> 0]
  /\ grants = [r \in Requests |-> 0]
  /\ created = 0
  /\ faults = 0
  /\ advances = 0
  /\ limit = [loops |-> 0, faults |-> 0, advances |-> 0, creates |-> 0,
              all |-> FALSE, foreign |-> FALSE]
  /\ overdue = {}
  /\ errored = {}
  /\ shown = {}
  /\ missed = {}
  /\ skipped = {}
  /\ events = [r \in Requests |-> {}]
  /\ force = NoCall
  /\ calls = <<>>

RoleSpec == RoleInit /\ [][assign_guild_rank_role]_vars

----------------------------------------------------------------------------
(* cleanup_command over the files it can meet *)

\* Creation times of the records of the file, and the times of the /cleanup:
\* the ages are at, below and above the retention window
CleanupStamps == {0, 1}
CleanupTimes == {RETENTION, RETENTION + 1, RETENTION + 2}

\* A record as the plugin may have left it: without the timestamp key
Unstamped(e) == [f \in DOMAIN e \ {"timestamp"} |-> e[f]]

\* The records code c can carry
CleanupRecords(c) ==
  LET Stamped == {[NewEntry("Alice", 1, ts, c) EXCEPT !.verified = v] :
                    ts \in CleanupStamps, v \in BOOLEAN}
  IN Stamped \cup {Unstamped(NewEntry("Alice", 1, 0, c))}

CleanupFiles ==
  UNION {{m \in [S -> UNION {CleanupRecords(c) : c \in S}] :
            \A c \in S : m[c] \in CleanupRecords(c)} : S \in SUBSET Codes}

\* Any such file at any such time; no polling loop runs, and the file can fail
CleanupInit ==
  /\ store \in CleanupFiles
  /\ now \in CleanupTimes
  /\ pc = [t \in Tasks |-> "off"]
  /\ data = [t \in Tasks |-> EmptyMap]
  /\ todo = [t \in Tasks |-> {}]
  /\ cur = [t \in Tasks |-> Nothing]
  /\ existing = [t \in Tasks |-> {}]
  /\ roles = [u \in Users |-> {}]
  /\ runs = [r \in Requests |-> 0]
  /\ grants = [r \in Requests |-> 0]
  /\ created = 0
  /\ faults = 0
  /\ advances = 0
  /\ limit = [loops |-> 0, faults |-> MaxFaults, advances |-> 0, creates |-> 0,
              all |-> FALSE, foreign |-> FALSE]
  /\ overdue = {}
  /\ errored = {}
  /\ shown = {}
  /\ missed = {}
  /\ skipped = {}
  /\ events = [r \in Requests |-> {}]
  /\ force = NoCall
  /\ calls = <<>>

CleanupSpec == CleanupInit /\ [][cleanup_command]_vars

----------------------------------------------------------------------------
(* Properties *)

\* A polling loop is waiting for get_minecraft_uuid or check_guild_membership
InLookup(t) == pc[t] \in {"uuid", "guild"}

\* A polling loop is between get_minecraft_uuid and the save of its record
InPipeline(t) == pc[t] \in {"uuid", "guild", "remove", "add", "dm"}

Verified(e) == e.processed /\ e.guild_verified = "True" /\ e.error = None

GrantErrors ==
  {"Discord guild not found", "Discord member not found in server",
   "Failed to assign guild rank role"}

\* The status of code c as the mapping m shows it
Status(m, c) ==
  IF c \notin DOMAIN m THEN "Removed"
  ELSE IF m[c].processed THEN "Terminal"
  ELSE IF m[c].verified THEN "Submitted"
  ELSE "Pending"

LegalEdges ==
  { <<"Removed", "Pending">>, <<"Pending", "Submitted">>,
    <<"Submitted", "Terminal">>, <<"Pending", "Terminal">>,
    <<"Terminal", "Removed">> }

\* C1: assign_guild_rank_role is called at most once for a request, and exactly
\* once for a request whose record is stored as Verified
C1_GrantAtMostOnce ==
  /\ \A r \in Requests : grants[r] <= 1
  /\ \A c \in DOMAIN store : Verified(store[c]) => grants[store[c].request] = 1

\* C2: a step of a polling loop never writes verified = false over a record
\* the file shows with verified = true
C2_FlipNeverUndone ==
  [][process_verified_codes =>
       \A c \in DOMAIN store :
         (store[c].verified /\ c \in DOMAIN store') => store'[c].verified]_vars

\* C3: while a lookup is in flight for a record, the file does not show that
\* record as Submitted: the record was claimed in the file before the lookup
C3_ClaimedBeforeLookup ==
  \A t \in Tasks :
    InLookup(t) =>
      ~(cur[t][1] \in DOMAIN store /\ Submitted(store[cur[t][1]]))

\* C4: with one polling loop, whose ticks follow one another, the pipeline
\* is started at most once for a request
C4_SecondTickStartsNothing ==
  limit.loops = 1 => \A r \in Requests : runs[r] <= 1

\* C5: a step of a polling loop changes the status the file shows for a code
\* only along a legal edge
C5_LegalEdgesOnly ==
  [][process_verified_codes =>
       \A c \in Codes :
         \/ Status(store', c) = Status(store, c)
         \/ <<Status(store, c), Status(store', c)>> \in LegalEdges]_vars

\* C6: in the file, no requester has more than one record that is not processed
C6_OneInFlightPerRequester ==
  \A u \in Users :
    Cardinality({c \in DOMAIN store :
                   store[c].discord_user_id = Some(u) /\ InFlight(store[c])}) <= 1

\* C6, its case: a requester with a processed record has started another
\* verification, which is in flight
C6_Witness ==
  \E u \in Users : \E c1, c2 \in DOMAIN store :
    /\ store[c1].discord_user_id = Some(u) /\ store[c1].processed
    /\ store[c2].discord_user_id = Some(u) /\ InFlight(store[c2])

\* C7: /verify never stores its new record under a code that is the key of a
\* record of the file that is not processed
C7_NoLiveCodeReused ==
  [][\A u \in Users, n \in Names, c \in Codes, lok \in BOOLEAN, sok \in BOOLEAN :
       VerifyCreate(u, n, c, lok, sok) =>
         ~(c \in DOMAIN store /\ InFlight(store[c]))]_vars

\* C8: a step of a polling loop leaves every processed record of the file in
\* the file, with every field as it was
C8_TerminalIsFinal ==
  [][process_verified_codes =>
       \A c \in DOMAIN store :
         store[c].processed => (c \in DOMAIN store' /\ store'[c] = store[c])]_vars

\* C9: a record whose role grant failed is stored as failed: guild_verified is
\* not true and /status does not report it as verified
C9_GrantFailureIsFailed ==
  \A c \in DOMAIN store :
    store[c].error \in GrantErrors =>
      /\ store[c].guild_verified # "True"
      /\ status_command(store[c]) # "Verification Complete!"

\* C10: the pipeline is never running for a record that was still Pending when
\* its age passed the 30-minute expiry window
C10_NoPipelineAfterExpiry ==
  \A t \in Tasks : InPipeline(t) => data[t][cur[t][1]].request \notin overdue

\* C11: /cleanup removes from the file only records that are processed
C11_CleanupRemovesOnlyTerminal ==
  [][cleanup_command =>
       \A c \in DOMAIN store : c \notin DOMAIN store' => store[c].processed]_vars

\* C12: a tick never starts get_minecraft_uuid for a record for which a step of
\* the pipeline has ended in an error in an earlier tick
C12_NoRetryAfterError ==
  [][\A t \in Tasks :
       TickStart(t) => \A r \in Requests : runs'[r] > runs[r] => r \notin errored]_vars

\* Polling loop t takes a step of the pipeline for the record its for loop is at
PipelineStep(t) ==
  /\ InPipeline(t)
  /\ <<pc'[t], cur'[t], data'[t]>> # <<pc[t], cur[t], data[t]>>

\* C13: a step of the pipeline for a code leaves every other code of the file
\* as it was just before the step: present or absent, with the same record
C13_WriteChangesOwnCodeOnly ==
  [][\A t \in Tasks :
       PipelineStep(t) =>
         \A k \in Codes \ {cur[t][1]} :
           /\ k \in DOMAIN store <=> k \in DOMAIN store'
           /\ k \in DOMAIN store => store'[k] = store[k]]_vars

\* The file holds the record of request r, submitted and not processed
SubmittedInFile(r) ==
  \E c \in DOMAIN store : store[c].request = r /\ Submitted(store[c])

\* The file holds the record of request r, processed
TerminalInFile(r) ==
  \E c \in DOMAIN store : store[c].request = r /\ store[c].processed

\* C14: a record the plugin has submitted is eventually in the file as
\* processed, when the polling loops keep running and every call returns
C14_SubmittedBecomesTerminal ==
  \A r \in Requests : SubmittedInFile(r) ~> TerminalInFile(r)

\* C15: at most one polling loop is inside process_verified_codes at a time
C15_OneTickAtATime ==
  Cardinality({t \in Tasks : InPipeline(t)}) <= 1

\* C16: when /verify sends a code to the user, the record of that code is in
\* the file: a failed save is not passed over
C16_ShownCodeWasWritten ==
  [][\A r \in Requests :
       (r \in shown' /\ r \notin shown) =>
         \E c \in DOMAIN store' : store'[c].request = r]_vars

\* C17: a load of a file that is absent or cannot be parsed gives the empty
\* mapping, and a tick that loads so starts no lookup, leaves the file as it
\* is and ends at the sleep of the polling loop, from where the next tick starts
C17_LoadFailureSkipsTick ==
  [][\A t \in Tasks :
       (TickStart(t) /\ faults' > faults) =>
         /\ DOMAIN load_verification_codes(FALSE) = {}
         /\ runs' = runs
         /\ store' = store
         /\ pc'[t] = "sleep" /\ cur'[t] = Nothing]_vars

\* C17, its case: a tick could not load the file while it held a submitted
\* record; the record is still submitted, no lookup was made for it, and the
\* polling loop is at its sleep
C17_Witness ==
  \E r \in missed :
    /\ SubmittedInFile(r)
    /\ runs[r] = 0
    /\ \E t \in Tasks : pc[t] = "sleep"

\* C18: a submitted record that a tick found without a discord_user_id is in
\* the file as processed, with the error "inconsistent state"
C18_InconsistentRecordFails ==
  \A c \in DOMAIN store :
    store[c].request \in skipped =>
      store[c].processed /\ store[c].error = "inconsistent state"

\* C19: while a step of the pipeline for a record has not returned, the file
\* does not show that record as processed: the terminal status is written
\* after the last step executed for the code
C19_TerminalAfterLastStep ==
  \A t \in Tasks :
    InPipeline(t) => ~TerminalInFile(data[t][cur[t][1]].request)

\* The record m shows for the code polling loop t is at is verified, with
\* the rank mapped from the rank Hypixel reported, and after the step the
\* member holds the Discord role of that rank
VerifiedWithRole(t, m) ==
  LET c == cur[t][1]
  IN /\ c \in DOMAIN m
     /\ m[c].processed /\ m[c].guild_verified = "True" /\ m[c].error = None
     /\ m[c].guild_rank \in Ranks
     /\ m[c].raw_rank = "Guild Master" => m[c].guild_rank = "Guild Master"
     /\ m[c].raw_rank = "Officer" => m[c].guild_rank = "Guild Officer"
     /\ m[c].raw_rank = "Member" => m[c].guild_rank = "Guild Member"
     /\ m[c].raw_rank = "Recruit" => m[c].guild_rank = "Guild Recruit"
     /\ GUILD_ROLE_IDS[m[c].guild_rank] \in roles'[Member(t)]

\* C20: when the lookups of a tick succeeded for a record, add_roles
\* succeeded, and the tick saves the record at its end, the file shows the
\* record as verified with the mapped rank and the member holds the role of
\* that rank
C20_ScenarioA ==
  [][\A t \in Tasks :
       (DmReturn(t) /\ data[t][cur[t][1]].guild_verified = "True"
          /\ faults' = faults) => VerifiedWithRole(t, store')]_vars

GuildErrors ==
  {check_guild_membership(HypResp(k, None, 0, 0)).error : k \in HypixelFailures}

\* No polling loop is in the pipeline for the record of request r
Idle(r) ==
  \A t \in Tasks : InPipeline(t) => data[t][cur[t][1]].request # r

\* C21: for a record whose membership lookup failed, remove_roles and
\* add_roles are never called, and once no pipeline runs for it the file shows
\* it as processed with guild_verified false and the reason of the lookup
C21_ScenarioB ==
  \A r \in Requests :
    "denied" \in events[r] =>
      /\ "sink" \notin events[r]
      /\ \A c \in DOMAIN store :
           (store[c].request = r /\ Idle(r)) =>
             /\ store[c].processed
             /\ store[c].guild_verified = "False"
             /\ store[c].error \in GuildErrors

\* C22: for a record whose identity lookup timed out, check_guild_membership
\* and assign_guild_rank_role are never called, once no pipeline runs for it
\* the file shows it as processed with the error of the timeout, and that
\* error is not the error of any other response of the identity lookup
C22_ScenarioD ==
  /\ \A resp \in MojangResponses \ {"timeout"} :
       get_minecraft_uuid(resp).error # get_minecraft_uuid("timeout").error
  /\ \A r \in Requests :
       "timeout" \in events[r] =>
         /\ "guild" \notin events[r]
         /\ grants[r] = 0
         /\ \A c \in DOMAIN store :
              (store[c].request = r /\ Idle(r)) =>
                /\ store[c].processed
                /\ store[c].error = get_minecraft_uuid("timeout").error

\* C23: of two calls of assign_guild_rank_role that follow one another for the
\* same member and rank, the role existing and Discord accepting every
\* request, both return the role and the second leaves the member's guild
\* rank roles as the first left them
C23_AssignTwiceAsOnce ==
  \A i \in 1..Len(calls) : \A j \in 1..Len(calls) :
    ( /\ j = i + 1
      /\ calls[i].member = calls[j].member /\ calls[i].rank = calls[j].rank
      /\ calls[i].accepted /\ calls[j].accepted )
    => /\ calls[i].returned /\ calls[j].returned
       /\ calls[j].after = calls[i].after

\* C23, its case: two such calls have returned, for a member who held other
\* guild rank roles before the first
C23_Witness ==
  /\ Len(calls) = 2
  /\ calls[1].member = calls[2].member /\ calls[1].rank = calls[2].rank
  /\ calls[1].accepted /\ calls[2].accepted
  /\ calls[1].before # {} /\ calls[1].before # calls[1].after

\* The record of the code polling loop t was at, as the loop leaves it after a
\* step: in the file when the step saved, else in the loop's mapping
Left(t) ==
  IF pc'[t] \in {"guild", "remove", "add", "dm"} THEN data'[t][cur[t][1]]
  ELSE store'[cur[t][1]]

\* C24: a tick that has started ends; the for loop goes on only to a record
\* it has not visited in this tick; and a lookup that times out ends its
\* record as processed with the error of the timeout
C24_TickTerminates ==
  /\ \A t \in Tasks : InPipeline(t) ~> (pc[t] = "sleep")
  /\ [][\A t \in Tasks :
          (PipelineStep(t) /\ cur'[t] # cur[t] /\ cur'[t] # Nothing) =>
            /\ cur'[t][1] \in todo[t]
            /\ todo'[t] = todo[t] \ {cur'[t][1]}]_vars
  /\ [][\A t \in Tasks :
          /\ UuidReturn(t, "timeout") =>
               /\ cur'[t] # cur[t]
               /\ Left(t).processed /\ Left(t).error = "Mojang API timeout"
          /\ (\E disc \in DiscordLookups :
                GuildReturn(t, HypResp("timeout", None, 0, 0), disc, TRUE)) =>
               /\ pc'[t] \notin {"remove", "add"}
               /\ Left(t).processed /\ Left(t).error = "Hypixel API timeout"]_vars

\* C24, its case: the identity lookup timed out for one record, another
\* record was processed as well, each in one run of the pipeline, and the
\* polling loop is back at its sleep
C24_Witness ==
  \E t \in Tasks : \E c1, c2 \in DOMAIN store :
    /\ pc[t] = "sleep"
    /\ c1 # c2
    /\ store[c1].processed /\ store[c1].error = "Mojang API timeout"
    /\ store[c2].processed /\ runs[store[c2].request] = 1
    /\ runs[store[c1].request] = 1

\* C25: a bot operation whose load of the file failed, so that it worked on
\* the empty mapping, writes no mapping that lacks a record the file holds:
\* every code of the file before the step is a code of the file after it
C25_FailedLoadDeletesNothing ==
  [][( \/ \E u \in Users, n \in Names, c \in generate_code, sok \in BOOLEAN :
            VerifyCreate(u, n, c, FALSE, sok)
       \/ (cleanup_command \/ \E t \in Tasks : TickStart(t)) /\ faults' > faults )
     => DOMAIN store \subseteq DOMAIN store']_vars

\* The for loop of polling loop t comes to a record: the first lookup begins
Visits(t) == cur'[t] # cur[t] /\ cur'[t] # Nothing

\* Polling loop t calls assign_guild_rank_role and the function reaches
\* remove_roles or add_roles
EntersSink(t) == pc'[t] \in {"remove", "add"} /\ pc[t] \notin {"remove", "add"}

\* C26: a tick begins the lookups only for a record that is submitted in the
\* mapping the tick loaded from the file, and that mapping is kept as loaded
\* for the records the loop has not come to; the membership lookup follows
\* only a successful identity lookup; remove_roles and add_roles follow only
\* a successful membership lookup for that record; and the roles of a member
\* change in no other step
C26_SinkOnlyForSubmitted ==
  [][\A t \in Tasks :
       /\ (TickStart(t) /\ cur'[t] # Nothing) => data'[t] = store
       /\ (PipelineStep(t) /\ pc'[t] # "sleep") =>
            \A k \in DOMAIN data[t] \ {cur[t][1]} :
              k \in DOMAIN data'[t] /\ data'[t][k] = data[t][k]
       /\ Visits(t) =>
            /\ pc'[t] = "uuid"
            /\ cur'[t][1] \in DOMAIN data'[t]
            /\ Submitted(data'[t][cur'[t][1]])
       /\ (pc'[t] = "guild" /\ pc[t] # "guild") =>
            /\ Submitted(data[t][cur[t][1]])
            /\ \E resp \in MojangResponses :
                 UuidReturn(t, resp) /\ get_minecraft_uuid(resp).success
       /\ EntersSink(t) =>
            /\ Submitted(data[t][cur[t][1]])
            /\ "guild" \in events[data[t][cur[t][1]].request]
            /\ \E resp \in HypixelResponses :
                 /\ GuildReturn(t, resp, "ok", TRUE)
                 /\ check_guild_membership(resp).success
       /\ roles' # roles =>
            \E s \in Tasks : pc[s] \in {"remove", "add"}
                             /\ (RemoveReturn(s) \/ AddReturn(s))]_vars

\* C26, its case: a tick has added a guild rank role for the record it is at
C26_Witness ==
  \E t \in Tasks :
    /\ pc[t] = "dm"
    /\ data[t][cur[t][1]].guild_verified = "True"
    /\ "sink" \in events[data[t][cur[t][1]].request]
    /\ roles[Member(t)] # {}

\* The age of a record of the file is past the retention window, a record
\* without a timestamp being of time 0
Aged(e) ==
  IF "timestamp" \in DOMAIN e THEN now - e.timestamp > 86400 ELSE now > 86400

\* C27: /cleanup takes out of the file the records whose age is greater than
\* 86400 s and no other, leaves every record it keeps as it was, and saves
\* only when a record of the file has that age
C27_CleanupExact ==
  [][/\ cleanup_command =>
          /\ DOMAIN store' = {c \in DOMAIN store : ~Aged(store[c])}
          /\ \A c \in DOMAIN store' : store'[c] = store[c]
     /\ \A lok \in BOOLEAN, sok \in BOOLEAN :
          cleanup_save(lok, sok) => \E c \in DOMAIN store : Aged(store[c])]_vars

\* C28: after a call of assign_guild_rank_role that returned the role, the
\* member holds the role of the requested rank and no other guild rank role
C28_OneRankRoleAfterSuccess ==
  \A i \in 1..Len(calls) :
    calls[i].returned =>
      calls[i].after = {get_discord_role_for_guild_rank(calls[i].rank)}

\* C29: after a call of assign_guild_rank_role that returned None, the member
\* holds the guild rank roles held before the call
C29_FailureKeepsRoles ==
  \A i \in 1..Len(calls) : ~calls[i].returned => calls[i].after = calls[i].before

\* The fields of a record the requester and the plugin set; request stands
\* for the record itself
NotOwnedByBot ==
  {"request", "minecraft_username", "discord_user_id", "timestamp", "created_at",
   "verified"}

\* C30: when a step of the pipeline writes the file, the record the for loop is
\* at, if the file holds it, is in the file after the write with the
\* minecraft_username, discord_user_id, timestamp, created_at and verified it
\* had there before
C30_TickKeepsRequesterFields ==
  [][\A t \in Tasks :
       (PipelineStep(t) /\ store' # store) =>
         LET c == cur[t][1]
         IN (c \in DOMAIN store /\ store[c].request = data[t][c].request) =>
              /\ c \in DOMAIN store'
              /\ \A f \in NotOwnedByBot : store'[c][f] = store[c][f]]_vars

====
